---- MODULE Spec2Model ----
(***************************************************************************)
(* Model of Challange.py: three address-file readers (XML, TSV, plain      *)
(* text), the XML normaliser parse_address, and main(), which reads every  *)
(* file named on the command line, sorts the collected records by zip and  *)
(* prints them.                                                            *)
(*                                                                         *)
(* A Python str is a sequence of one-character strings.  A dict is a       *)
(* function whose DOMAIN is its key set.  A call that may raise returns    *)
(* [ok |-> BOOLEAN, ...]; ok = FALSE is the uncaught exception.            *)
(***************************************************************************)
EXTENDS Integers, Sequences, FiniteSets, TLC

VARIABLES files, i, all_addresses, stdout, stderr, status, pc

vars == <<files, i, all_addresses, stdout, stderr, status, pc>>

(***************************************************************************)
(* Bounds of the model.                                                    *)
(***************************************************************************)
MaxFiles == 3
MaxLineLen == 5

(***************************************************************************)
(* Python str primitives.                                                  *)
(***************************************************************************)
\* Code point of a character: the order Python's str comparison uses.
Code(c) ==
    CASE c = "\t" -> 9
      [] c = "\n" -> 10
      [] c = " " -> 32
      [] c = "," -> 44
      [] c = "-" -> 45
      [] c = "0" -> 48
      [] c = "1" -> 49
      [] c = "2" -> 50
      [] c = "3" -> 51
      [] c = "4" -> 52
      [] c = "5" -> 53
      [] c = "6" -> 54
      [] c = "7" -> 55
      [] c = "8" -> 56
      [] c = "9" -> 57
      [] c = "A" -> 65
      [] c = "B" -> 66
      [] c = "a" -> 97
      [] c = "b" -> 98
      [] c = "c" -> 99
      [] c = "n" -> 110
      [] c = "s" -> 115
      [] c = "z" -> 122

\* str.isspace for one character.
IsWs(c) == c \in {" ", "\t", "\n"}

\* s[from:] with a 1-based first index.
Drop(s, from) == SubSeq(s, from, Len(s))

RECURSIVE LStrip(_)
LStrip(s) ==
    IF s = <<>> THEN s
    ELSE IF IsWs(s[1]) THEN LStrip(Tail(s)) ELSE s

RECURSIVE RStrip(_)
RStrip(s) ==
    IF s = <<>> THEN s
    ELSE IF IsWs(s[Len(s)]) THEN RStrip(SubSeq(s, 1, Len(s) - 1)) ELSE s

\* str.strip()
Strip(s) == RStrip(LStrip(s))

\* Length of the leading run of non-whitespace characters of s.
RECURSIVE TokenLen(_)
TokenLen(s) ==
    IF s = <<>> \/ IsWs(s[1]) THEN 0 ELSE 1 + TokenLen(Tail(s))

\* str.split() with no argument: the whitespace-separated tokens.
RECURSIVE Split(_)
Split(s) ==
    LET t == LStrip(s)
        n == TokenLen(t)
    IN  IF t = <<>> THEN <<>>
        ELSE <<SubSeq(t, 1, n)>> \o Split(Drop(t, n + 1))

\* str.find(sep) + 1: the first position where sep occurs in s, 0 if none.
Find(s, sep) ==
    LET hits == {k \in 1..(Len(s) - Len(sep) + 1) :
                    SubSeq(s, k, k + Len(sep) - 1) = sep}
    IN  IF hits = {} THEN 0
        ELSE CHOOSE k \in hits : \A h \in hits : k <= h

\* str.split(sep): the pieces between the non-overlapping occurrences of
\* sep, scanned left to right; always at least one piece.
RECURSIVE SplitSep(_, _)
SplitSep(s, sep) ==
    LET k == Find(s, sep)
    IN  IF k = 0 THEN <<s>>
        ELSE <<SubSeq(s, 1, k - 1)>> \o SplitSep(Drop(s, k + Len(sep)), sep)

\* str.replace(old, new): every non-overlapping occurrence, left to right,
\* in one pass (the result is not rescanned).
RECURSIVE Replace(_, _, _)
Replace(s, old, new) ==
    LET k == Find(s, old)
    IN  IF k = 0 THEN s
        ELSE SubSeq(s, 1, k - 1) \o new \o Replace(Drop(s, k + Len(old)), old, new)

\* sep.join(parts)
RECURSIVE Join(_, _)
Join(parts, sep) ==
    IF parts = <<>> THEN <<>>
    ELSE IF Len(parts) = 1 THEN parts[1]
    ELSE parts[1] \o sep \o Join(Tail(parts), sep)

\* A faulty variant of StrLess: the shorter string first, as for numbers.
RECURSIVE LengthFirstLess(_, _)
LengthFirstLess(a, b) ==
    IF Len(a) # Len(b) THEN Len(a) < Len(b)
    ELSE IF a = <<>> THEN FALSE
    ELSE IF a[1] = b[1] THEN LengthFirstLess(Tail(a), Tail(b))
    ELSE Code(a[1]) < Code(b[1])

\* a < b on two str values: code-point comparison at the first difference,
\* a proper prefix being smaller.
RECURSIVE StrLess(_, _)
StrLess(a, b) ==
    IF b = <<>> THEN FALSE
    ELSE IF a = <<>> THEN TRUE
    ELSE IF a[1] = b[1] THEN StrLess(Tail(a), Tail(b))
    ELSE Code(a[1]) < Code(b[1])

\* The empty dict.
EmptyDict == [k \in {} |-> <<>>]

\* A raised exception: ok = FALSE and no value.
Raise == [ok |-> FALSE, val |-> EmptyDict]

Return(v) == [ok |-> TRUE, val |-> v]

(***************************************************************************)
(* parse_address: one raw XML field mapping to one address record.         *)
(***************************************************************************)
RequiredTags == {"STREET", "CITY", "STATE", "POSTAL_CODE"}

\* The name rebuilt from its whitespace-separated parts.
JoinName(name_parts) ==
    Join(SubSeq(name_parts, 1, Len(name_parts) - 1), <<" ">>)
        \o <<" ">> \o name_parts[Len(name_parts)]

\* The name / organization branch.
Identity(ent) ==
    IF "NAME" \in DOMAIN ent /\ Strip(ent["NAME"]) # <<>>
    THEN "name" :> JoinName(Split(ent["NAME"]))
    ELSE IF "COMPANY" \in DOMAIN ent
         THEN "organization" :> Strip(ent["COMPANY"])
         ELSE EmptyDict

\* The zip of an XML entry.
NormalizeZip(postal_code) == Replace(Strip(postal_code), <<" ", "-">>, <<>>)

\* A missing STREET, CITY, STATE or POSTAL_CODE raises KeyError.
parse_address(ent) ==
    IF ~(RequiredTags \subseteq DOMAIN ent) THEN Raise
    ELSE Return(Identity(ent) @@
                [street |-> Strip(ent["STREET"]),
                 city   |-> Strip(ent["CITY"]),
                 state  |-> Strip(ent["STATE"]),
                 zip    |-> NormalizeZip(ent["POSTAL_CODE"])])

(***************************************************************************)
(* read_xml.  The parsed document is the sequence of its ENT elements in   *)
(* document order; an ENT is the sequence of its children [tag, text],     *)
(* text = <<>> being an element without text (child.text is None).         *)
(***************************************************************************)
\* A faulty variant of HasText: no filter on the children.
HasTextAlways(child) == TRUE

\* if child.text
HasText(child) == child.text # <<>>

\* {child.tag: child.text for child in ent if child.text}: of two children
\* with one tag the later one stays.
EntryDict(ent) ==
    LET kept == {k \in 1..Len(ent) : HasText(ent[k])}
        tags == {ent[k].tag : k \in kept}
        Last(t) == CHOOSE k \in kept :
                      /\ ent[k].tag = t
                      /\ \A h \in kept : ent[h].tag = t => h <= k
    IN  [t \in tags |-> ent[Last(t)].text]

\* The results of a loop body over the items: the exception of the first
\* item that raises ends the loop, otherwise the list of the values.
Collect(results) ==
    IF \E k \in 1..Len(results) : ~results[k].ok
    THEN [ok |-> FALSE, recs |-> <<>>]
    ELSE [ok |-> TRUE, recs |-> [k \in 1..Len(results) |-> results[k].val]]

read_xml(f) ==
    IF f.malformed THEN [ok |-> FALSE, recs |-> <<>>]
    ELSE Collect([k \in 1..Len(f.ents) |-> parse_address(EntryDict(f.ents[k]))])

(***************************************************************************)
(* read_tsv.  csv.DictReader takes the first row as the field names, skips *)
(* rows without any field, and maps each name to the row's cell in that    *)
(* column; a column the row is too short for maps to None.                 *)
(***************************************************************************)
\* row[name]: KeyError when no column has the name; None (ok = FALSE on
\* the .strip() that follows) when the row has no such cell.
Cell(header, cells, name) ==
    LET cols == {k \in 1..Len(header) : header[k] = name}
        col  == CHOOSE k \in cols : \A h \in cols : h <= k
    IN  IF cols = {} \/ col > Len(cells) THEN Raise
        ELSE Return(cells[col])

TsvColumns == {"first", "last", "organization", "address", "city", "state", "zip"}

TsvRecord(header, cells) ==
    LET V(name) == Strip(Cell(header, cells, name).val)
        base == [organization |-> V("organization"),
                 street       |-> V("address"),
                 city         |-> V("city"),
                 state        |-> V("state"),
                 zip          |-> V("zip")]
    IN  IF \E c \in TsvColumns : ~Cell(header, cells, c).ok THEN Raise
        ELSE IF V("first") # <<>> \/ V("last") # <<>>
             THEN Return(("name" :> (V("first") \o <<" ">> \o V("last"))) @@ base)
             ELSE Return(base)

\* The rows DictReader yields: those with at least one field.
DataRows(f) == SelectSeq(f.rows, LAMBDA r : r # <<>>)

read_tsv(f) ==
    Collect([k \in 1..Len(DataRows(f)) |-> TsvRecord(f.header, DataRows(f)[k])])

(***************************************************************************)
(* read_txt.                                                               *)
(***************************************************************************)
\* A faulty variant of ParseCityStateZip: split(',', 1).
ParseSplitOnce(line) ==
    LET k == Find(line, <<",">>)
        state_zip == Split(Drop(line, k + 1))
    IN  IF k = 0 THEN Raise
        ELSE IF Len(state_zip) < 2 THEN Raise
        ELSE Return([city  |-> Strip(SubSeq(line, 1, k - 1)),
                     state |-> Strip(state_zip[1]),
                     zip   |-> Strip(state_zip[2])])

\* lines[3] of an entry: city, state and zip.
ParseCityStateZip(line) ==
    LET city_state_zip == SplitSep(line, <<",">>)
        state_zip == Split(city_state_zip[2])
    IN  IF Len(city_state_zip) < 2 THEN Raise
        ELSE IF Len(state_zip) < 2 THEN Raise
        ELSE Return([city  |-> Strip(city_state_zip[1]),
                     state |-> Strip(state_zip[1]),
                     zip   |-> Strip(state_zip[2])])

\* The loop body: one entry to one record; a missing line raises IndexError.
TxtRecord(entry) ==
    LET lines == SplitSep(entry, <<"\n">>)
        csz == ParseCityStateZip(lines[4])
    IN  IF Len(lines) < 4 THEN Raise
        ELSE IF ~csz.ok THEN Raise
        ELSE Return([name   |-> Strip(lines[1]),
                     street |-> Strip(lines[2]),
                     city   |-> csz.val.city,
                     state  |-> csz.val.state,
                     zip    |-> csz.val.zip])

read_txt(f) ==
    LET data == SplitSep(f.text, <<"\n", "\n">>)
    IN  Collect([k \in 1..Len(data) |-> TxtRecord(data[k])])

(***************************************************************************)
(* The sort of main: list.sort(key=itemgetter('zip')), a stable sort that  *)
(* compares keys with <.                                                   *)
(***************************************************************************)
\* A faulty variant of Insert that is not stable: x goes before its equals.
RECURSIVE InsertBeforeEqual(_, _)
InsertBeforeEqual(sorted, x) ==
    IF sorted = <<>> THEN <<x>>
    ELSE IF ~StrLess(sorted[1].zip, x.zip) THEN <<x>> \o sorted
    ELSE <<sorted[1]>> \o InsertBeforeEqual(Tail(sorted), x)

\* A faulty variant of Insert that keeps one record per zip.
RECURSIVE InsertUnique(_, _)
InsertUnique(sorted, x) ==
    IF sorted = <<>> THEN <<x>>
    ELSE IF sorted[1].zip = x.zip THEN sorted
    ELSE IF StrLess(x.zip, sorted[1].zip) THEN <<x>> \o sorted
    ELSE <<sorted[1]>> \o InsertUnique(Tail(sorted), x)

\* x placed into the sorted list: behind every element whose key is not
\* greater than x's.
RECURSIVE Insert(_, _)
Insert(sorted, x) ==
    IF sorted = <<>> THEN <<x>>
    ELSE IF StrLess(x.zip, sorted[1].zip) THEN <<x>> \o sorted
    ELSE <<sorted[1]>> \o Insert(Tail(sorted), x)

RECURSIVE SortByZip(_)
SortByZip(addresses) ==
    IF addresses = <<>> THEN <<>>
    ELSE Insert(SortByZip(SubSeq(addresses, 1, Len(addresses) - 1)),
                addresses[Len(addresses)])

(***************************************************************************)
(* Input files.  A file is its extension and its content; of the content   *)
(* fields only the one of the file's format is read.                       *)
(***************************************************************************)
NoContent == [malformed |-> FALSE, ents |-> <<>>, header |-> <<>>,
              rows |-> <<>>, text |-> <<>>]

XmlFile(ents) == [NoContent EXCEPT !.ents = ents] @@ [ext |-> "xml"]

BrokenXmlFile == [NoContent EXCEPT !.malformed = TRUE] @@ [ext |-> "xml"]

TsvFile(header, rows) ==
    [NoContent EXCEPT !.header = header, !.rows = rows] @@ [ext |-> "tsv"]

TxtFile(text) == [NoContent EXCEPT !.text = text] @@ [ext |-> "txt"]

PdfFile == NoContent @@ [ext |-> "pdf"]

El(tag, text) == [tag |-> tag, text |-> text]

\* <ENT> with the four address elements and the given other children.
Ent(others, street, postal_code) ==
    others \o <<El("STREET", street), El("CITY", <<"c">>),
                El("STATE", <<"A">>), El("POSTAL_CODE", postal_code)>>

XmlPeople ==
    XmlFile(<<Ent(<<El("NAME", <<" ", "a", " ", " ", "b", " ">>)>>, <<"1", " ", "s">>, <<"9">>),
              Ent(<<El("NAME", <<>>), El("COMPANY", <<"B">>)>>, <<"2", " ", "s">>, <<"1", "0">>)>>)

XmlAnonymous ==
    XmlFile(<<Ent(<<>>, <<"3", " ", "s">>, <<" ", "9", " ">>),
              Ent(<<El("NAME", <<" ">>), El("COMPANY", <<" ", "B">>)>>, <<"4", " ", "s">>, <<"0", "2">>)>>)

XmlEmpty == XmlFile(<<>>)

XmlSingleName ==
    XmlFile(<<Ent(<<El("NAME", <<"a">>), El("COMPANY", <<"B">>)>>, <<"5", " ", "s">>, <<"9", "-", "1">>)>>)

XmlZipDash ==
    XmlFile(<<Ent(<<El("COMPANY", <<"B">>)>>, <<"6", " ", "s">>, <<"1", " ", "-", "2">>),
              Ent(<<El("COMPANY", <<"B">>)>>, <<"7", " ", "s">>, <<"1", " ", " ", "-">>)>>)

XmlNoStreet ==
    XmlFile(<<Ent(<<El("NAME", <<"a", " ", "b">>)>>, <<"8", " ", "s">>, <<"9">>),
              Ent(<<El("NAME", <<"a", " ", "b">>)>>, <<>>, <<"9">>)>>)

TsvHeader == <<"first", "last", "organization", "address", "city", "state", "zip">>

Row(first, last, organization, address, zip) ==
    <<first, last, organization, address, <<"c">>, <<"A">>, zip>>

TsvPeople ==
    TsvFile(TsvHeader,
            <<Row(<<"a">>, <<"b">>, <<>>, <<"1", " ", "z">>, <<"1", "0">>),
              <<>>,
              Row(<<>>, <<>>, <<"B">>, <<"2", " ", "z">>, <<"0", "2">>)>>)

TsvZipDash ==
    TsvFile(TsvHeader,
            <<Row(<<" ">>, <<"b">>, <<"B">>, <<"3", " ", "z">>, <<"1", " ", "-", "2", " ">>)>>)

TsvShortRow ==
    TsvFile(TsvHeader,
            <<Row(<<"a">>, <<"b">>, <<>>, <<"4", " ", "z">>, <<"9">>),
              <<<<"a">>, <<"b">>, <<>>>>>>)

TsvNoZipColumn ==
    TsvFile(SubSeq(TsvHeader, 1, 6), <<Row(<<"a">>, <<"b">>, <<>>, <<"5", " ", "z">>, <<"9">>)>>)

\* The text of one four-line entry; its third line is not read.
Entry(name, street, line4) ==
    Join(<<name, street, <<"c">>, line4>>, <<"\n">>)

TxtPeople ==
    TxtFile(Join(<<Entry(<<"a", " ", "b">>, <<"1", " ", "n">>, <<"c", ",", " ", "A", " ", "9">>),
                   Entry(<<"n">>, <<"2", " ", "n">>, <<"c", ",", "A", " ", "9", "-", "1", " ">>)>>,
                 <<"\n", "\n">>))

TxtTwoCommas ==
    TxtFile(Entry(<<"n">>, <<"3", " ", "n">>, <<"c", ",", "A", " ", "1", "0", ",", "z">>))

TxtTrailingBlank ==
    TxtFile(Entry(<<"n">>, <<"4", " ", "n">>, <<"c", ",", "A", " ", "9">>) \o <<"\n", "\n">>)

TxtNoComma ==
    TxtFile(Join(<<Entry(<<"n">>, <<"5", " ", "n">>, <<"c", ",", "A", " ", "9">>),
                   Entry(<<"n">>, <<"6", " ", "n">>, <<"c", " ", "A", " ", "9">>)>>,
                 <<"\n", "\n">>))

InputFiles ==
    {XmlPeople, XmlAnonymous, XmlEmpty, XmlSingleName, XmlZipDash, XmlNoStreet,
     BrokenXmlFile, TsvPeople, TsvZipDash, TsvShortRow, TsvNoZipColumn,
     TxtPeople, TxtTwoCommas, TxtTrailingBlank, TxtNoComma, PdfFile}

\* The argument lists of one to n files.
ArgLists(S, n) == UNION {[1..k -> S] : k \in 1..n}

(***************************************************************************)
(* main                                                                    *)
(***************************************************************************)
\* The reader the extension selects.
ReadFile(f) ==
    CASE f.ext = "xml" -> read_xml(f)
      [] f.ext = "tsv" -> read_tsv(f)
      [] f.ext = "txt" -> read_txt(f)

Supported == {"xml", "tsv", "txt"}

Start(args) ==
    /\ files \in args
    /\ i = 1
    /\ all_addresses = <<>>
    /\ stdout = <<>>
    /\ stderr = <<>>
    /\ status = -1
    /\ pc = "loop"

Init == Start(ArgLists(InputFiles, MaxFiles))

\* all_addresses.extend(r) when the reader returns; an exception the reader
\* raises is not caught: traceback on stderr, exit status 1.
Extend(r) ==
    /\ IF r.ok
       THEN /\ all_addresses' = all_addresses \o r.recs
            /\ i' = i + 1
            /\ UNCHANGED <<stderr, status, pc>>
       ELSE /\ stderr' = Append(stderr, "Traceback")
            /\ status' = 1
            /\ pc' = "raised"
            /\ UNCHANGED <<all_addresses, i>>
    /\ UNCHANGED <<files, stdout>>

ReadXml ==
    /\ pc = "loop"
    /\ i <= Len(files)
    /\ files[i].ext = "xml"
    /\ Extend(read_xml(files[i]))

ReadTsv ==
    /\ pc = "loop"
    /\ i <= Len(files)
    /\ files[i].ext = "tsv"
    /\ Extend(read_tsv(files[i]))

ReadTxt ==
    /\ pc = "loop"
    /\ i <= Len(files)
    /\ files[i].ext = "txt"
    /\ Extend(read_txt(files[i]))

\* A faulty variant of Unsupported: what was read so far is printed before the exit.
UnsupportedAfterPrint ==
    /\ pc = "loop"
    /\ i <= Len(files)
    /\ files[i].ext \notin Supported
    /\ stdout' = Append(stdout, all_addresses)
    /\ stderr' = Append(stderr, "Error: Unsupported file format")
    /\ status' = 1
    /\ pc' = "exited"
    /\ UNCHANGED <<files, i, all_addresses>>

\* The else branch: the message on stderr and sys.exit(1).
Unsupported ==
    /\ pc = "loop"
    /\ i <= Len(files)
    /\ files[i].ext \notin Supported
    /\ stderr' = Append(stderr, "Error: Unsupported file format")
    /\ status' = 1
    /\ pc' = "exited"
    /\ UNCHANGED <<files, i, all_addresses, stdout>>

\* all_addresses.sort(key=itemgetter('zip')) once the loop is over.
Sort ==
    /\ pc = "loop"
    /\ i > Len(files)
    /\ all_addresses' = SortByZip(all_addresses)
    /\ pc' = "print"
    /\ UNCHANGED <<files, i, stdout, stderr, status>>

\* print(json.dumps(all_addresses, indent=4)) and the normal exit.
PrintJson ==
    /\ pc = "print"
    /\ stdout' = Append(stdout, all_addresses)
    /\ status' = 0
    /\ pc' = "done"
    /\ UNCHANGED <<files, i, all_addresses, stderr>>

Next == ReadXml \/ ReadTsv \/ ReadTxt \/ Unsupported \/ Sort \/ PrintJson

Spec == Init /\ [][Next]_vars

(***************************************************************************)
(* Runs on one markup file of one ENT whose six known children are each    *)
(* absent, present without text, present with text, or present with text   *)
(* and followed by a second element of the tag without text.               *)
(***************************************************************************)
KnownTags == <<"NAME", "COMPANY", "STREET", "CITY", "STATE", "POSTAL_CODE">>

Shapes == {"absent", "empty", "text", "text, empty"}

SampleText(tag) ==
    CASE tag = "NAME" -> <<"a", " ", " ", "b">>
      [] tag = "COMPANY" -> <<" ", "B">>
      [] tag = "STREET" -> <<"1", " ", "s">>
      [] tag = "CITY" -> <<"c">>
      [] tag = "STATE" -> <<"A">>
      [] tag = "POSTAL_CODE" -> <<"9", "-", "1">>

Children(tag, shape) ==
    CASE shape = "absent" -> <<>>
      [] shape = "empty" -> <<El(tag, <<>>)>>
      [] shape = "text" -> <<El(tag, SampleText(tag))>>
      [] shape = "text, empty" -> <<El(tag, SampleText(tag)), El(tag, <<>>)>>

RECURSIVE ShapedEnt(_, _)
ShapedEnt(shape, n) ==
    IF n = 0 THEN <<>>
    ELSE ShapedEnt(shape, n - 1) \o Children(KnownTags[n], shape[KnownTags[n]])

XmlProbeFiles ==
    {XmlFile(<<ShapedEnt(shape, Len(KnownTags))>>) :
        shape \in [{KnownTags[n] : n \in 1..Len(KnownTags)} -> Shapes]}

Singles(S) == {<<f>> : f \in S}

InitXml == Start(Singles(XmlProbeFiles) \cup ArgLists(InputFiles, MaxFiles))

SpecXml == InitXml /\ [][Next]_vars

(***************************************************************************)
(* Runs on one plain-text file of one entry whose fourth line is any       *)
(* string of at most MaxLineLen characters over LineAlphabet.              *)
(***************************************************************************)
LineAlphabet == {"c", ",", " ", "z"}

Strings(A, n) == UNION {[1..k -> A] : k \in 0..n}

TxtProbeFiles ==
    {TxtFile(Entry(<<"n">>, <<"1", " ", "n">>, line)) :
        line \in Strings(LineAlphabet, MaxLineLen)}

InitLine == Start(Singles(TxtProbeFiles) \cup ArgLists(InputFiles, MaxFiles))

SpecLine == InitLine /\ [][Next]_vars

(***************************************************************************)
(* What the claims speak of.                                               *)
(***************************************************************************)
\* The records of the documents written to standard output.
OutputRecords ==
    UNION {{stdout[d][k] : k \in 1..Len(stdout[d])} : d \in 1..Len(stdout)}

\* Whether reading the file ends the run.
FileFails(f) == f.ext \notin Supported \/ ~ReadFile(f).ok

\* The records of the first n files, in file order then record order.
RECURSIVE Concatenated(_)
Concatenated(n) ==
    IF n = 0 THEN <<>> ELSE Concatenated(n - 1) \o ReadFile(files[n]).recs

\* a <= b in lexicographic order: a is a prefix of b, or at the first place
\* where they differ a has the character of smaller code point.
LexLeq(a, b) ==
    \/ Len(a) <= Len(b) /\ SubSeq(b, 1, Len(a)) = a
    \/ \E k \in 1..Len(a) :
          /\ k <= Len(b)
          /\ SubSeq(a, 1, k - 1) = SubSeq(b, 1, k - 1)
          /\ Code(a[k]) < Code(b[k])

\* C2: every document written to standard output is in ascending order of
\* zip under lexicographic string comparison: each record's zip is <= the
\* zip of the record after it.
C2_SortedByZip ==
    \A d \in 1..Len(stdout) : \A k \in 1..(Len(stdout[d]) - 1) :
        LexLeq(stdout[d][k].zip, stdout[d][k + 1].zip)

\* A run printed "10" before "9" (string order, not numeric order) in a
\* document of at least four records.
C2_Witness ==
    /\ pc = "done"
    /\ Len(stdout[1]) >= 4
    /\ \E k \in 1..(Len(stdout[1]) - 1) :
          /\ stdout[1][k].zip = <<"1", "0">>
          /\ stdout[1][k + 1].zip = <<"9">>

\* C3: the sort is stable: for every zip, the printed records with that zip
\* are, in order, the records with that zip of the concatenation of the
\* input files (files in argument order, records in file order).
C3_Stable ==
    pc = "done" =>
        \A r \in OutputRecords :
            LET SameZip(x) == x.zip = r.zip
            IN  SelectSeq(stdout[1], SameZip)
                    = SelectSeq(Concatenated(Len(files)), SameZip)

\* A run printed two different records of one zip that came from two files,
\* and two that came from one file.
C3_Witness ==
    /\ pc = "done"
    /\ Len(files) >= 2
    /\ \E a, b \in 1..Len(stdout[1]) :
          /\ a < b
          /\ stdout[1][a].zip = stdout[1][b].zip
          /\ stdout[1][a] # stdout[1][b]
          /\ \E k \in 1..Len(ReadFile(files[1]).recs) :
                ReadFile(files[1]).recs[k] = stdout[1][a]
          /\ \E k \in 1..Len(ReadFile(files[2]).recs) :
                ReadFile(files[2]).recs[k] = stdout[1][b]
          /\ \A k \in 1..Len(ReadFile(files[1]).recs) :
                ReadFile(files[1]).recs[k] # stdout[1][b]

\* C4: whole-run atomicity: when some file of the argument list fails
\* (unsupported extension or a reader's exception), nothing is ever written
\* to standard output and the run ends with exit status 1; standard output
\* is written only after every file has been read.
C4_Atomic ==
    /\ (\E k \in 1..Len(files) : FileFails(files[k])) =>
          /\ stdout = <<>>
          /\ pc # "done"
          /\ pc \in {"raised", "exited"} => status = 1
    /\ pc \in {"raised", "exited"} => stdout = <<>> /\ status = 1
    /\ stdout # <<>> => pc = "done" /\ i > Len(files)

\* The second file failed after the first one had been read with records;
\* nothing was printed.
C4_Witness ==
    /\ pc \in {"raised", "exited"}
    /\ i = 2
    /\ all_addresses # <<>>
    /\ stdout = <<>>

\* The number of non-overlapping blank-line separators in a text.
RECURSIVE CountSeparators(_)
CountSeparators(s) ==
    IF Len(s) < 2 THEN 0
    ELSE IF s[1] = "\n" /\ s[2] = "\n" THEN 1 + CountSeparators(Drop(s, 3))
    ELSE CountSeparators(Tail(s))

\* The entries of a file: ENT elements, data rows, blank-line-separated
\* entries.
EntryCount(f) ==
    CASE f.ext = "xml" -> Len(f.ents)
      [] f.ext = "tsv" -> Cardinality({k \in 1..Len(f.rows) : f.rows[k] # <<>>})
      [] f.ext = "txt" -> CountSeparators(f.text) + 1

RECURSIVE EntriesUpTo(_)
EntriesUpTo(n) ==
    IF n = 0 THEN 0 ELSE EntriesUpTo(n - 1) + EntryCount(files[n])

\* C5: on a successful run the printed document has as many records as the
\* input files have entries together, and so has the collection while the
\* files are read and after the sort.
C5_Count ==
    /\ pc \in {"loop", "print", "done"} => Len(all_addresses) = EntriesUpTo(i - 1)
    /\ pc = "done" => Len(stdout[1]) = EntriesUpTo(Len(files))

\* A run of two files with entries printed their records, two of one zip.
C5_Witness ==
    /\ pc = "done"
    /\ Len(files) = 2
    /\ EntryCount(files[1]) >= 2
    /\ EntryCount(files[2]) >= 2
    /\ \E a, b \in 1..Len(stdout[1]) : a # b /\ stdout[1][a].zip = stdout[1][b].zip

\* Entry j of a file carries identifying information: a name or an
\* organization / company that is not blank.
Identified(f, j) ==
    CASE f.ext = "xml" ->
            LET e == EntryDict(f.ents[j])
            IN  \/ "NAME" \in DOMAIN e /\ Strip(e["NAME"]) # <<>>
                \/ "COMPANY" \in DOMAIN e /\ Strip(e["COMPANY"]) # <<>>
      [] f.ext = "tsv" ->
            \E c \in {"first", "last", "organization"} :
                Strip(Cell(f.header, DataRows(f)[j], c).val) # <<>>
      [] f.ext = "txt" ->
            Strip(SplitSep(SplitSep(f.text, <<"\n", "\n">>)[j], <<"\n">>)[1]) # <<>>

\* C1: every record of the output has at most one of the keys name and
\* organization, and exactly one when its source entry carried identifying
\* information, whichever reader produced it.
C1_ExactlyOne ==
    /\ \A r \in OutputRecords : ~({"name", "organization"} \subseteq DOMAIN r)
    /\ pc = "done" =>
          \A k \in 1..Len(files) : \A j \in 1..EntryCount(files[k]) :
              Identified(files[k], j) =>
                  LET r == ReadFile(files[k]).recs[j]
                  IN  /\ r \in OutputRecords
                      /\ {"name", "organization"} \cap DOMAIN r # {}

\* s holds a space followed by a hyphen.
HasSpaceHyphen(s) ==
    \E k \in 1..(Len(s) - 1) : s[k] = " " /\ s[k + 1] = "-"

\* C6: no record of the output, whichever reader produced it, has a zip
\* holding a space followed by a hyphen; and the zip of a markup entry whose
\* postal code holds no such pair is the trimmed postal code, hyphens kept.
C6_NoSpaceHyphen ==
    /\ \A r \in OutputRecords : ~HasSpaceHyphen(r.zip)
    /\ pc = "done" =>
          \A k \in 1..Len(files) : files[k].ext = "xml" =>
              \A j \in 1..Len(files[k].ents) :
                  LET p == EntryDict(files[k].ents[j])["POSTAL_CODE"]
                  IN  ~HasSpaceHyphen(p) => ReadFile(files[k]).recs[j].zip = Strip(p)

\* s neither begins nor ends with whitespace.
Trimmed(s) == s = <<>> \/ (~IsWs(s[1]) /\ ~IsWs(s[Len(s)]))

\* C7: every record of the output has the keys street, city, state and zip,
\* and none of the four values begins or ends with whitespace.
C7_Trimmed ==
    \A r \in OutputRecords :
        /\ {"street", "city", "state", "zip"} \subseteq DOMAIN r
        /\ \A key \in {"street", "city", "state", "zip"} : Trimmed(r[key])

\* A trimmed string with every run of whitespace replaced by one space.
RECURSIVE CollapseWs(_)
CollapseWs(s) ==
    IF s = <<>> THEN <<>>
    ELSE IF IsWs(s[1]) THEN <<" ">> \o CollapseWs(LStrip(s))
    ELSE <<s[1]>> \o CollapseWs(Tail(s))

\* C8: the name of a markup entry whose NAME is not blank, of one token or
\* more, is the trimmed NAME with its runs of whitespace collapsed to one
\* space: nothing added in front or behind.
C8_NameCollapsed ==
    pc = "done" =>
        \A k \in 1..Len(files) : files[k].ext = "xml" =>
            \A j \in 1..Len(files[k].ents) :
                LET e == EntryDict(files[k].ents[j])
                    r == ReadFile(files[k]).recs[j]
                IN  ("NAME" \in DOMAIN e /\ Strip(e["NAME"]) # <<>>) =>
                        /\ r \in OutputRecords
                        /\ "name" \in DOMAIN r
                        /\ r.name = CollapseWs(Strip(e["NAME"]))

\* The records file k put into the collection, while the files are read.
Portion(k) ==
    SubSeq(all_addresses, Len(Concatenated(k - 1)) + 1, Len(Concatenated(k)))

\* The markup file with every child element that has no text taken out.
WithoutEmpty(f) ==
    XmlFile([j \in 1..Len(f.ents) |->
                SelectSeq(f.ents[j], LAMBDA child : child.text # <<>>)])

\* C9: in the markup reader a child element without text behaves as an
\* absent one: a file yields the records, or the failure, that the file
\* without its empty child elements yields.
C9_EmptyAsAbsent ==
    \A k \in 1..Len(files) :
        (files[k].ext = "xml" /\ ~files[k].malformed) =>
            LET g == read_xml(WithoutEmpty(files[k]))
            IN  /\ (pc = "loop" /\ k < i) => g.ok /\ Portion(k) = g.recs
                /\ (pc = "raised" /\ k = i) => ~g.ok

\* An ENT with an empty NAME, no other NAME and a COMPANY gave a record
\* with the organization and no name.
C9_Witness ==
    /\ pc = "loop"
    /\ i = 2
    /\ files[1].ext = "xml"
    /\ Len(files[1].ents) = 1
    /\ \E n \in 1..Len(files[1].ents[1]) :
          files[1].ents[1][n] = El("NAME", <<>>)
    /\ \A n \in 1..Len(files[1].ents[1]) :
          files[1].ents[1][n].tag = "NAME" => files[1].ents[1][n].text = <<>>
    /\ Len(all_addresses) = 1
    /\ "organization" \in DOMAIN all_addresses[1]
    /\ "name" \notin DOMAIN all_addresses[1]

\* An ENT with an empty STREET element failed as one without STREET does.
C9_WitnessRequired ==
    /\ pc = "raised"
    /\ i = 1
    /\ files[1].ext = "xml"
    /\ Len(files[1].ents) = 1
    /\ \E n \in 1..Len(files[1].ents[1]) :
          files[1].ents[1][n] = El("STREET", <<>>)

\* The lines of entry j of a plain-text file.
TxtLines(f, j) == SplitSep(SplitSep(f.text, <<"\n", "\n">>)[j], <<"\n">>)

\* Line 4 split once, at its first comma: the city, and the state and zip
\* as the first two tokens of all that follows the comma.
SplitOnceRule(line) ==
    LET k == Find(line, <<",">>)
        tokens == Split(Drop(line, k + 1))
    IN  IF k = 0 \/ Len(tokens) < 2 THEN Raise
        ELSE Return([city |-> Strip(SubSeq(line, 1, k - 1)),
                     state |-> tokens[1], zip |-> tokens[2]])

\* Line 4 cut at its first comma and again at its second, if it has one:
\* the city, and the state and zip as the first two tokens of the text
\* between the two commas (or behind the only comma).
FirstTwoCommasRule(line) ==
    LET k == Find(line, <<",">>)
        after == Drop(line, k + 1)
        k2 == Find(after, <<",">>)
        between == IF k2 = 0 THEN after ELSE SubSeq(after, 1, k2 - 1)
        tokens == Split(between)
    IN  IF k = 0 \/ Len(tokens) < 2 THEN Raise
        ELSE Return([city |-> Strip(SubSeq(line, 1, k - 1)),
                     state |-> tokens[1], zip |-> tokens[2]])

\* The plain-text reader follows the rule on every file whose entries have
\* four lines: each record has the rule's city, state and zip, and the
\* file fails exactly when the rule fails on one of its entries.
FollowsRule(Rule(_)) ==
    \A k \in 1..Len(files) :
        LET f == files[k]
            n == CountSeparators(f.text) + 1
        IN  (f.ext = "txt" /\ \A j \in 1..n : Len(TxtLines(f, j)) >= 4) =>
                /\ (pc = "loop" /\ k < i) =>
                      \A j \in 1..n :
                          LET want == Rule(TxtLines(f, j)[4])
                              got == Portion(k)[j]
                          IN  /\ want.ok
                              /\ got.city = want.val.city
                              /\ got.state = want.val.state
                              /\ got.zip = want.val.zip
                /\ (pc = "raised" /\ k = i) =>
                      \E j \in 1..n : ~Rule(TxtLines(f, j)[4]).ok

\* C10 as claimed: line 4 is split once, at its first comma, and the state
\* and zip are the first two tokens of everything behind that comma; the
\* entry fails only without a comma or with fewer than two such tokens.
C10_SplitOnce == FollowsRule(SplitOnceRule)

\* C10 as amended: line 4 is split at every comma; the city is the text
\* before the first comma, the state and zip are the first two tokens of
\* the text between the first and the second comma (or behind the only
\* comma); the entry fails only without a comma or with fewer than two
\* tokens in that text.
C10_FirstTwoCommas == FollowsRule(FirstTwoCommasRule)

\* A fourth line with two commas was read into a record.
C10_Witness ==
    /\ pc = "loop"
    /\ i = 2
    /\ files[1].ext = "txt"
    /\ CountSeparators(files[1].text) = 0
    /\ Len(TxtLines(files[1], 1)) = 4
    /\ Len(SplitSep(TxtLines(files[1], 1)[4], <<",">>)) = 3
    /\ Len(all_addresses) = 1

====
